---- MODULE Spec2Model ----
(***************************************************************************)
(* Model of the RAG proxy/query subsystem of HenryNVP/agent_ai:            *)
(*   app/api/v1/documents.py            identifier normalizer, token       *)
(*                                      issuer, _rag_request and the three *)
(*                                      UI proxy endpoints                 *)
(*   app/core/langgraph/tools/rag_search.py   the rag_search agent tool    *)
(*                                                                         *)
(* Python strings are sequences of one-character strings.  Optional[X] is  *)
(* a sequence of length 0 (None) or 1.  JSON values are tagged records.    *)
(* Three specifications share the variables:                               *)
(*   SpecNormalize  applies _normalize_file_id to bounded inputs           *)
(*   SpecFormat     applies _format_results to bounded JSON bodies         *)
(*   Spec           the inbound calls (tool and UI proxy) as processes     *)
(*                  that suspend at the one outbound HTTP request          *)
(***************************************************************************)
EXTENDS Integers, Sequences, FiniteSets, TLC

VARIABLES
    settings,     \* app.core.config.settings, read-only after start
    nIn,          \* _normalize_file_id: argument (Optional[str])
    nOut,         \* _normalize_file_id: returned identifier
    nAgain,       \* _normalize_file_id applied to its own result
    nPc,          \* "input" | "once" | "twice"
    fIn,          \* _format_results: argument (a JSON value)
    fOut,         \* _format_results: outcome (returned text or raised error)
    fPc,          \* "input" | "done"
    pc,           \* inbound call: "idle" | "awaiting" | "done"
    op,           \* inbound call kind: "none" | "tool" | "upload" | "list" | "preview"
    args,         \* arguments of the inbound call
    request,      \* Optional: the outbound HTTP request of this call
    sent,         \* number of outbound HTTP requests of this call
    clientOpen,   \* an httpx.AsyncClient of this call is open
    outcome,      \* Optional: what the network gave back
    result,       \* Optional: what the inbound call returned or raised
    minted,       \* Optional: the token the issuer returned for this call
    issued,       \* number of tokens minted since start
    attached,     \* serials of the tokens earlier requests carried
    served        \* number of inbound calls completed

vars == <<settings, nIn, nOut, nAgain, nPc, fIn, fOut, fPc, pc, op, args,
          request, sent, clientOpen, outcome, result, minted, issued, attached,
          served>>

normVars == <<nIn, nOut, nAgain, nPc>>
fmtVars  == <<fIn, fOut, fPc>>
callVars == <<pc, op, args, request, sent, clientOpen, outcome, result,
              minted, issued, attached, served>>

(***************************************************************************)
(* Bounds of the model                                                     *)
(***************************************************************************)
MaxLen     == 4    \* longest identifier given to the normalizer
MaxEntries == 2    \* most entries in a response list given to the formatter
MaxTopK    == 2    \* largest explicit top_k
MaxCalls   == 2    \* inbound calls served in one behaviour

(***************************************************************************)
(* Optional values                                                         *)
(***************************************************************************)
None == <<>>
Some(x) == <<x>>
IsNone(o) == o = <<>>
The(o) == o[1]

(***************************************************************************)
(* Python str                                                              *)
(***************************************************************************)
LowerLetters == {"a","b","c","d","e","f","g","h","i","j","k","l","m",
                 "n","o","p","q","r","s","t","u","v","w","x","y","z"}
Digits == {"0","1","2","3","4","5","6","7","8","9"}
UpperSeq == <<"A","B","C","D","E","F","G","H","I","J","K","L","M",
              "N","O","P","Q","R","S","T","U","V","W","X","Y","Z">>
LowerSeq == <<"a","b","c","d","e","f","g","h","i","j","k","l","m",
              "n","o","p","q","r","s","t","u","v","w","x","y","z">>
Whitespace == {" ", "\t", "\n"}

\* str.lower() on one character
LowerChar(c) ==
    IF \E i \in DOMAIN UpperSeq : UpperSeq[i] = c
    THEN LowerSeq[CHOOSE i \in DOMAIN UpperSeq : UpperSeq[i] = c]
    ELSE c

\* str.lower()
Lower(s) == [i \in 1..Len(s) |-> LowerChar(s[i])]

RECURSIVE LStripSet(_, _)
LStripSet(s, set) ==
    IF s # <<>> /\ Head(s) \in set THEN LStripSet(Tail(s), set) ELSE s

RECURSIVE RStripSet(_, _)
RStripSet(s, set) ==
    IF s # <<>> /\ s[Len(s)] \in set
    THEN RStripSet(SubSeq(s, 1, Len(s) - 1), set)
    ELSE s

\* str.strip(chars)
StripSet(s, set) == RStripSet(LStripSet(s, set), set)

\* str.strip()
Strip(s) == StripSet(s, Whitespace)

\* truth value of a str
StrTruthy(s) == s # <<>>

(***************************************************************************)
(* documents.py: _normalize_file_id                                        *)
(***************************************************************************)
\* the class [a-z0-9_\-] of the first re.sub
IdChars == LowerLetters \cup Digits \cup {"_", "-"}

\* re.sub(r"[^a-z0-9_\-]", "_", cleaned)
SubUnsafe(s) == [i \in 1..Len(s) |-> IF s[i] \in IdChars THEN s[i] ELSE "_"]

\* a variant that keeps runs of "_" as they are
CollapseUnderscores_Keep(s) == s

\* re.sub(r"_+", "_", cleaned)
RECURSIVE CollapseUnderscores(_)
CollapseUnderscores(s) ==
    IF Len(s) < 2 THEN s
    ELSE IF s[1] = "_" /\ s[2] = "_" THEN CollapseUnderscores(Tail(s))
    ELSE <<s[1]>> \o CollapseUnderscores(Tail(s))

\* lines 32-34: the cleaned value
Cleaned(value) ==
    StripSet(CollapseUnderscores(SubUnsafe(Lower(Strip(value)))), {"_"})

\* uuid.uuid4().hex[:8]: eight hexadecimal digits, two samples of them
HexTags == { <<"0","0","0","0","0","0","0","0">>,
             <<"3","f","a","9","0","c","7","e">> }

DocPrefix == <<"d","o","c","_">>

\* _normalize_file_id(value) with settings.RAG_DEFAULT_FILE_IDS = defaults
\* and hex the eight digits uuid4 would give
normalize_file_id(value, defaults, hex) ==
    IF ~IsNone(value) /\ StrTruthy(The(value)) /\ StrTruthy(Cleaned(The(value)))
    THEN Cleaned(The(value))
    ELSE IF defaults # <<>> THEN defaults[1]
    ELSE DocPrefix \o hex

(***************************************************************************)
(* JSON values (what response.json() returns) and Python truthiness        *)
(***************************************************************************)
JNull == [t |-> "null"]
JNum(n) == [t |-> "num", v |-> n]
JBool(b) == [t |-> "bool", v |-> b]
JStr(s) == [t |-> "str", v |-> s]
JList(items) == [t |-> "list", v |-> items]
JObj(fields) == [t |-> "obj", v |-> fields]
EmptyObj == JObj(<<>>)

\* bool(j)
Truthy(j) ==
    CASE j.t = "null" -> FALSE
      [] j.t = "num"  -> j.v # 0
      [] j.t = "bool" -> j.v
      [] j.t = "str"  -> j.v # <<>>
      [] j.t = "list" -> j.v # <<>>
      [] j.t = "obj"  -> DOMAIN j.v # {}

\* a or b
Or(a, b) == IF Truthy(a) THEN a ELSE b

\* d.get(key) of a dict
Get(d, key) == IF key \in DOMAIN d.v THEN d.v[key] ELSE JNull

\* isinstance(j, dict), isinstance(j, list), isinstance(j, (float, int))
IsDict(j) == j.t = "obj"
IsList(j) == j.t = "list"
IsNumber(j) == j.t \in {"num", "bool"}

(***************************************************************************)
(* rag_search.py: _format_results                                          *)
(***************************************************************************)
NoContextMessage == "No relevant context found in the knowledge base."

ShortenWidth == 320
Placeholder == <<".", ".", ".">>

\* str.split(): the maximal runs of non-whitespace characters
RECURSIVE Words(_)
Words(s) ==
    LET t == LStripSet(s, Whitespace) IN
    IF t = <<>> THEN <<>>
    ELSE LET n == CHOOSE k \in 1..Len(t) :
                     /\ \A i \in 1..k : t[i] \notin Whitespace
                     /\ (k = Len(t) \/ t[k+1] \in Whitespace)
         IN <<SubSeq(t, 1, n)>> \o Words(SubSeq(t, n + 1, Len(t)))

\* " ".join(words)
RECURSIVE JoinSpace(_)
JoinSpace(words) ==
    IF words = <<>> THEN <<>>
    ELSE IF Len(words) = 1 THEN words[1]
    ELSE words[1] \o <<" ">> \o JoinSpace(Tail(words))

\* textwrap.shorten(text, width, placeholder): the collapsed text when it
\* fits, else the longest prefix of whole words that fits with the placeholder
Shorten(text, width, placeholder) ==
    LET words == Words(text)
        joined == JoinSpace(words)
        fits(k) == Len(JoinSpace(SubSeq(words, 1, k))) + Len(placeholder) <= width
        kept == CHOOSE k \in 0..Len(words) :
                    /\ (k = 0 \/ fits(k))
                    /\ \A m \in (k+1)..Len(words) : ~fits(m)
    IN IF Len(joined) <= width THEN joined
       ELSE JoinSpace(SubSeq(words, 1, kept)) \o placeholder

\* f"{score:.3f}" if isinstance(score, (float, int)) else "n/a"
ScoreText(score) ==
    IF IsNumber(score)
    THEN [fmt |-> ".3f", n |-> IF score.t = "bool" THEN (IF score.v THEN 1 ELSE 0) ELSE score.v]
    ELSE [fmt |-> "n/a", n |-> 0]

\* lines 124-133: the document of one entry (None when the entry has no shape)
EntryDocument(item) ==
    IF IsList(item) /\ Len(item.v) >= 1 THEN item.v[1]
    ELSE IF IsDict(item) THEN Or(Get(item, "document"), item)
    ELSE JNull

\* lines 125-133: the score of one entry
EntryScore(item) ==
    IF IsList(item) /\ Len(item.v) >= 1
    THEN (IF Len(item.v) > 1 THEN item.v[2] ELSE JNull)
    ELSE IF IsDict(item) THEN Get(item, "score")
    ELSE JNull

\* lines 124-145, one pass of the loop body for the entry at index idx:
\* continue (skip), an appended line, or the exception the body raises
FormatItem(idx, item) ==
    LET document == EntryDocument(item)
        score == EntryScore(item)
    IN IF ~IsDict(document) THEN [act |-> "skip"]
       ELSE
         LET page_content == Or(Or(Get(document, "page_content"),
                                   Get(document, "content")), JStr(<<>>))
             metadata == Or(Get(document, "metadata"), EmptyObj)
         IN IF page_content.t # "str"
            THEN [act |-> "raise", exc |-> "AttributeError"]   \* .split()
            ELSE IF ~IsDict(metadata)
            THEN [act |-> "raise", exc |-> "AttributeError"]   \* .get()
            ELSE [act |-> "line",
                  line |-> [idx |-> idx,
                            score |-> ScoreText(score),
                            source |-> Or(Or(Or(Get(metadata, "source"),
                                                Get(metadata, "filename")),
                                             Get(metadata, "file_id")),
                                          JStr(<<"u","n","k","n","o","w","n"," ",
                                                 "s","o","u","r","c","e">>)),
                            snippet |-> Shorten(page_content.v, ShortenWidth,
                                                Placeholder)]]

\* any enumeration of a finite set
RECURSIVE SetToSeq(_)
SetToSeq(S) ==
    IF S = {} THEN <<>>
    ELSE LET x == CHOOSE x \in S : TRUE IN <<x>> \o SetToSeq(S \ {x})

\* what enumerate(data) walks over: the elements of a list, the keys of a
\* dict, the characters of a str
Iterated(data) ==
    CASE data.t = "list" -> data.v
      [] data.t = "obj"  -> [i \in 1..Cardinality(DOMAIN data.v) |->
                               JStr(<<SetToSeq(DOMAIN data.v)[i]>>)]
      [] data.t = "str"  -> [i \in 1..Len(data.v) |-> JStr(<<data.v[i]>>)]

Returned(text) == [kind |-> "return", text |-> text]
Raised(exc) == [kind |-> "raise", exc |-> exc, status |-> 0]
Message(m) == [form |-> "message", text |-> m, status |-> 0, lines |-> <<>>]
StatusMessage(m, code) == [form |-> "message", text |-> m, status |-> code, lines |-> <<>>]
Lines(ls) == [form |-> "lines", text |-> "", status |-> 0, lines |-> ls]

\* _format_results(data)
format_results(data) ==
    IF ~Truthy(data) THEN Returned(Message(NoContextMessage))
    ELSE IF data.t \in {"num", "bool"} THEN Raised("TypeError")   \* enumerate()
    ELSE
      LET items == Iterated(data)
          outs == [i \in 1..Len(items) |-> FormatItem(i, items[i])]
          isLine(o) == o.act = "line"
          chunks == SelectSeq(outs, isLine)
          formatted_chunks == [i \in 1..Len(chunks) |-> chunks[i].line]
      IN IF \E i \in 1..Len(outs) : outs[i].act = "raise"
         THEN Raised(outs[CHOOSE i \in 1..Len(outs) :
                             /\ outs[i].act = "raise"
                             /\ \A j \in 1..(i-1) : outs[j].act # "raise"].exc)
         ELSE IF formatted_chunks = <<>>
         THEN Returned(Message(NoContextMessage))
         ELSE Returned(Lines(formatted_chunks))

(***************************************************************************)
(* app.core.config.settings                                                *)
(***************************************************************************)
\* values of RAG_DEFAULT_FILE_IDS: none, a canonical one, one that is not in
\* canonical form, and a list whose first entry is empty
DefaultIdLists == { <<>>,
                    << <<"k","b">> >>,
                    << <<"K","b"," ","1">> >>,
                    << <<>>, <<"k","b">> >> }

TopKSettings == {0, 3}                    \* RAG_TOP_K
EntitySettings == { None, Some(<<"o","r","g">>) }   \* RAG_ENTITY_ID

AllSettings ==
    [ RAG_DEFAULT_FILE_IDS : DefaultIdLists,
      RAG_TOP_K            : TopKSettings,
      RAG_JWT_SECRET       : BOOLEAN,     \* a signing secret is configured
      RAG_ENTITY_ID        : EntitySettings ]

\* the settings that differ only in what the normalizer reads
NormalizerSettings ==
    { s \in AllSettings : /\ s.RAG_TOP_K = 3
                          /\ s.RAG_JWT_SECRET
                          /\ s.RAG_ENTITY_ID = None }

(***************************************************************************)
(* Token issuer: documents.py _generate_rag_jwt / _rag_headers and         *)
(* rag_search.py _generate_jwt / _prepare_headers                          *)
(***************************************************************************)
\* _generate_jwt / _generate_rag_jwt: nothing without a secret or when
\* jwt.encode raises, else the token minted by this call (its serial)
generate_jwt(secret, signs, serial) ==
    IF ~secret THEN None
    ELSE IF signs THEN Some([serial |-> serial])
    ELSE None

\* a variant that sends the Authorization header whatever the issuer returned
prepare_headers_Always(token, content_type) ==
    [content_type |-> content_type,
     Authorization |-> IF IsNone(token) THEN Some([serial |-> 0]) ELSE token]

\* _prepare_headers / _rag_headers: the headers of the outbound request,
\* Authorization holding the bearer token when the issuer returned one
prepare_headers(token, content_type) ==
    [content_type |-> content_type,
     Authorization |-> IF ~IsNone(token) THEN token ELSE None]

(***************************************************************************)
(* rag_search.py: RAGSearchTool                                            *)
(***************************************************************************)
Max(a, b) == IF a >= b THEN a ELSE b

\* __init__, line 57: self._default_file_ids
default_file_ids(s) == SelectSeq(s.RAG_DEFAULT_FILE_IDS, StrTruthy)

\* __init__, line 58: self._default_top_k
default_top_k(s) == Max(1, s.RAG_TOP_K)

QueryRequiredMessage == "A search query is required to use the knowledge base."
NoFileIdsMessage == "No file identifiers were provided or configured for the RAG knowledge base."
StatusFailedMessage == "RAG search failed with status"
TimedOutMessage == "RAG search timed out. Please try again with a simpler query."
NetworkErrorMessage == "RAG search failed due to a network error"
BadFormatMessage == "RAG search returned an unexpected response format."

\* a variant that tests the query without stripping it
IsBlankQuery_NoStrip(query) == ~StrTruthy(query)

\* line 162: not query or not query.strip()
IsBlankQuery(query) == ~StrTruthy(query) \/ ~StrTruthy(Strip(query))

\* truth value of an Optional[list] / Optional[str] / Optional[int]
OptSeqTruthy(o) == ~IsNone(o) /\ The(o) # <<>>
OptIntTruthy(o) == ~IsNone(o) /\ The(o) # 0

\* lines 165-166: file_ids or defaults, then the entries that are truthy
ResolveFileIds(file_ids, defaults) ==
    SelectSeq(IF OptSeqTruthy(file_ids) THEN The(file_ids) ELSE defaults,
              StrTruthy)

\* lines 173-175: top_k or default, floored to 1
ResolveTopK(top_k, default) ==
    LET resolved_top_k == IF OptIntTruthy(top_k) THEN The(top_k) ELSE default
    IN IF resolved_top_k < 1 THEN 1 ELSE resolved_top_k

\* _compose_payload: the endpoint and the JSON payload
compose_payload(query, file_ids, top_k, entity_id, s) ==
    LET is_multiple == Len(file_ids) > 1
        resolved_entity_id == IF OptSeqTruthy(entity_id) THEN entity_id
                              ELSE s.RAG_ENTITY_ID
    IN [endpoint |-> IF is_multiple THEN "RAG_QUERY_MULTIPLE_ENDPOINT"
                     ELSE "RAG_QUERY_ENDPOINT",
        payload |-> [query |-> query,
                     k |-> top_k,
                     file_ids |-> IF is_multiple THEN Some(file_ids) ELSE None,
                     file_id |-> IF is_multiple THEN None ELSE Some(file_ids[1]),
                     entity_id |-> IF OptSeqTruthy(resolved_entity_id)
                                   THEN resolved_entity_id ELSE None]]

(***************************************************************************)
(* The network: what one outbound request gives back                       *)
(***************************************************************************)
Statuses == {200, 404, 500}

Resp(status, json_ct, parses, body) ==
    [kind |-> "response", status |-> status, json_ct |-> json_ct,
     parses |-> parses, body |-> body]

\* the bodies of successful responses: a few lists, an object, a scalar
ResponseBodies ==
    { JNull, JList(<<>>), JNum(5),
      JObj([page_content |-> JStr(<<"a">>)]),
      JList(<< JList(<< JObj([page_content |-> JStr(<<"a">>)]), JNum(1) >>) >>),
      JList(<< JObj([document |-> JNum(0), score |-> JNum(1)]) >>),
      JList(<< JList(<< JObj([page_content |-> JNum(5)]), JNum(1) >>) >>) }

Outcomes ==
    { Resp(st, TRUE, FALSE, JNull) : st \in Statuses \ {200} }
  \cup { Resp(200, TRUE, TRUE, b) : b \in ResponseBodies }
  \cup { Resp(200, TRUE, FALSE, JNull),        \* declared JSON, malformed
         Resp(200, FALSE, FALSE, JNull),       \* plain text
         Resp(200, FALSE, TRUE, JList(<<>>)),  \* JSON sent as plain text
         [kind |-> "timeout", status |-> 0, json_ct |-> FALSE,
          parses |-> FALSE, body |-> JNull],
         [kind |-> "network", status |-> 0, json_ct |-> FALSE,
          parses |-> FALSE, body |-> JNull] }

\* a variant in which the client stays open when the request fails
ClientOpenAfterExit_LeakOnError(o) == o.kind # "response"

\* async with httpx.AsyncClient(...) as client: the client is closed when the
\* block is left, by return or by exception
ClientOpenAfterExit(o) == FALSE

\* lines 187-220 of _arun: the result for one outcome of the request
arun_result(o) ==
    IF o.kind = "response" /\ o.status >= 400          \* raise_for_status()
    THEN Returned(StatusMessage(StatusFailedMessage, o.status))
    ELSE IF o.kind = "timeout" THEN Returned(Message(TimedOutMessage))
    ELSE IF o.kind = "network" THEN Returned(Message(NetworkErrorMessage))
    ELSE IF ~o.parses THEN Returned(Message(BadFormatMessage))   \* response.json()
    ELSE format_results(o.body)

(***************************************************************************)
(* documents.py: _rag_request                                              *)
(***************************************************************************)
JText == [t |-> "text"]

\* lines 82-96 of _rag_request: what it returns or raises for one outcome
rag_request_result(o) ==
    IF o.kind = "timeout" THEN Raised("httpx.TimeoutException")
    ELSE IF o.kind = "network" THEN Raised("httpx.ConnectError")
    ELSE IF o.status >= 400
    THEN [kind |-> "raise", exc |-> "HTTPException", status |-> o.status]
    ELSE IF o.json_ct
    THEN (IF o.parses THEN [kind |-> "return", body |-> o.body]
          ELSE Raised("json.JSONDecodeError"))
    ELSE [kind |-> "return", body |-> JText]

(***************************************************************************)
(* Idle values of the three groups of variables                            *)
(***************************************************************************)
NormIdle == nIn = None /\ nOut = None /\ nAgain = None /\ nPc = "off"
FmtIdle  == fIn = JNull /\ fOut = None /\ fPc = "off"
CallIdle == pc = "off" /\ op = "none" /\ args = None /\ request = None
            /\ sent = 0 /\ clientOpen = FALSE /\ outcome = None
            /\ result = None /\ minted = None /\ issued = 0 /\ attached = {} /\ served = 0

(***************************************************************************)
(* Spec: the inbound calls                                                 *)
(***************************************************************************)
Queries == { <<>>, <<" ">>, <<" ", "q", " ">> }

FileIdArgs == { None,
                Some(<<>>),
                Some(<< <<>> >>),
                Some(<< <<" ">> >>),
                Some(<< <<"a">> >>),
                Some(<< <<"a">>, <<"b">> >>),
                Some(<< <<>>, <<"a">> >>) }

TopKArgs == {None} \cup { Some(k) : k \in (-1)..MaxTopK }

EntityArgs == { None, Some(<<"e">>) }

ToolArgs == [ query : Queries, file_ids : FileIdArgs, top_k : TopKArgs,
              entity_id : EntityArgs ]

UploadArgs == [ file_id : { None, Some(<<"A","-","-","b">>), Some(<<".">>) },
                entity_id : EntityArgs ]

PreviewArgs == [ file_id : { <<"A","-","-","b">>, <<".">> } ]

NoPayload == [none |-> TRUE]

Init ==
    /\ settings \in AllSettings
    /\ pc = "idle" /\ op = "none" /\ args = None /\ request = None
    /\ sent = 0 /\ clientOpen = FALSE /\ outcome = None /\ result = None
    /\ minted = None /\ issued = 0 /\ attached = {} /\ served = 0
    /\ NormIdle /\ FmtIdle

\* the part of an inbound call from the token issuer to the suspension at the
\* outbound request: a token is minted (or not), the headers are prepared,
\* the client is opened and the request is sent
SendRequest(method, endpoint, payload, content_type) ==
    \E signs \in BOOLEAN :
      LET token == generate_jwt(settings.RAG_JWT_SECRET, signs, issued + 1)
      IN /\ minted' = token
         /\ issued' = IF IsNone(token) THEN issued ELSE issued + 1
         /\ request' = Some([method |-> method, endpoint |-> endpoint,
                             payload |-> payload,
                             headers |-> prepare_headers(token, content_type)])
         /\ sent' = sent + 1
         /\ clientOpen' = TRUE
         /\ pc' = "awaiting"
         /\ UNCHANGED <<outcome, result>>

\* a call that ends before any request is made
ReturnEarly(r) ==
    /\ result' = Some(r)
    /\ pc' = "done"
    /\ UNCHANGED <<request, sent, clientOpen, outcome, minted, issued>>

\* RAGSearchTool._arun, lines 162-189: validation, resolution of the
\* arguments, the payload, the headers, and the POST
ToolInvoke ==
    /\ pc = "idle" /\ served < MaxCalls
    /\ \E a \in ToolArgs :
         /\ op' = "tool"
         /\ args' = Some(a)
         /\ IF IsBlankQuery(a.query)
            THEN ReturnEarly(Returned(Message(QueryRequiredMessage)))
            ELSE LET resolved_file_ids ==
                         ResolveFileIds(a.file_ids, default_file_ids(settings))
                     resolved_top_k ==
                         ResolveTopK(a.top_k, default_top_k(settings))
                 IN IF resolved_file_ids = <<>>
                    THEN ReturnEarly(Returned(Message(NoFileIdsMessage)))
                    ELSE LET c == compose_payload(Strip(a.query), resolved_file_ids,
                                                  resolved_top_k, a.entity_id,
                                                  settings)
                         IN SendRequest("POST", c.endpoint, c.payload,
                                        Some("application/json"))
    /\ UNCHANGED <<settings, attached, served, normVars, fmtVars>>

\* RAGSearchTool._arun, lines 189-220: the request completes or fails, the
\* client is closed, the outcome is turned into the returned text
ToolResponse ==
    /\ pc = "awaiting" /\ op = "tool"
    /\ \E o \in Outcomes :
         /\ outcome' = Some(o)
         /\ clientOpen' = ClientOpenAfterExit(o)
         /\ result' = Some(arun_result(o))
    /\ pc' = "done"
    /\ UNCHANGED <<settings, op, args, request, sent, minted, issued, attached,
                   served, normVars, fmtVars>>

\* upload_document, lines 111-121, up to the request inside _rag_request
UploadDocument ==
    /\ pc = "idle" /\ served < MaxCalls
    /\ \E a \in UploadArgs, hex \in HexTags :
         LET resolved_file_id ==
                 normalize_file_id(a.file_id, settings.RAG_DEFAULT_FILE_IDS, hex)
             resolved_entity == IF OptSeqTruthy(a.entity_id) THEN a.entity_id
                                ELSE settings.RAG_ENTITY_ID
         IN /\ op' = "upload"
            /\ args' = Some([file_id |-> resolved_file_id])
            /\ SendRequest("POST", "/embed",
                           [file_id |-> resolved_file_id,
                            entity_id |-> IF OptSeqTruthy(resolved_entity)
                                          THEN resolved_entity ELSE None],
                           None)
    /\ UNCHANGED <<settings, attached, served, normVars, fmtVars>>

\* list_document_ids, line 142, up to the request inside _rag_request
ListDocumentIds ==
    /\ pc = "idle" /\ served < MaxCalls
    /\ op' = "list"
    /\ args' = None
    /\ SendRequest("GET", "/ids", NoPayload, None)
    /\ UNCHANGED <<settings, attached, served, normVars, fmtVars>>

\* preview_document, lines 152-153, up to the request inside _rag_request
PreviewDocument ==
    /\ pc = "idle" /\ served < MaxCalls
    /\ \E a \in PreviewArgs, hex \in HexTags :
         LET resolved_file_id ==
                 normalize_file_id(Some(a.file_id), settings.RAG_DEFAULT_FILE_IDS, hex)
         IN /\ op' = "preview"
            /\ args' = Some([file_id |-> resolved_file_id])
            /\ SendRequest("GET", "/documents/{file_id}/context",
                           [file_id |-> resolved_file_id], None)
    /\ UNCHANGED <<settings, attached, served, normVars, fmtVars>>

\* what the endpoint returns around the body _rag_request gave it
\* (lines 129-133, 143, 154)
EndpointBody(o, a, body) ==
    CASE o = "upload"  -> [message |-> "Document uploaded successfully",
                           file_id |-> The(a).file_id, rag_response |-> body]
      [] o = "list"    -> [ids |-> body]
      [] o = "preview" -> [file_id |-> The(a).file_id, chunks |-> body]

\* _rag_request, lines 82-96, and the endpoint's return: the request completes
\* or fails, the client is closed, the endpoint returns or the exception
\* leaves the endpoint
ProxyResponse ==
    /\ pc = "awaiting" /\ op \in {"upload", "list", "preview"}
    /\ \E o \in Outcomes :
         LET r == rag_request_result(o)
         IN /\ outcome' = Some(o)
            /\ clientOpen' = ClientOpenAfterExit(o)
            /\ result' = Some(IF r.kind = "raise" THEN r
                              ELSE [kind |-> "return",
                                    body |-> EndpointBody(op, args, r.body)])
    /\ pc' = "done"
    /\ UNCHANGED <<settings, op, args, request, sent, minted, issued, attached,
                   served, normVars, fmtVars>>

\* the inbound call is over; the next one starts from nothing but the
\* settings (the history of the tokens is kept for the observer)
Return ==
    /\ pc = "done"
    /\ served' = served + 1
    /\ attached' = attached \cup
                   (IF ~IsNone(request) /\ ~IsNone(The(request).headers.Authorization)
                    THEN {The(The(request).headers.Authorization).serial}
                    ELSE {})
    /\ pc' = "idle" /\ op' = "none" /\ args' = None /\ request' = None
    /\ sent' = 0 /\ clientOpen' = FALSE /\ outcome' = None /\ result' = None
    /\ minted' = None
    /\ UNCHANGED <<settings, issued, normVars, fmtVars>>

Next ==
    \/ ToolInvoke
    \/ ToolResponse
    \/ UploadDocument
    \/ ListDocumentIds
    \/ PreviewDocument
    \/ ProxyResponse
    \/ Return

Spec == Init /\ [][Next]_vars

(***************************************************************************)
(* SpecNormalize: _normalize_file_id on bounded inputs                     *)
(***************************************************************************)
NormChars == {"a", "B", "_", "-", " ", "."}

StringsUpTo(chars, n) == UNION { [1..k -> chars] : k \in 0..n }

NormInputs == {None} \cup { Some(s) : s \in StringsUpTo(NormChars, MaxLen) }

InitNormalize ==
    /\ settings \in NormalizerSettings
    /\ nIn \in NormInputs
    /\ nOut = None /\ nAgain = None /\ nPc = "input"
    /\ FmtIdle /\ CallIdle

\* one call of _normalize_file_id(nIn)
NormalizeOnce ==
    /\ nPc = "input"
    /\ \E hex \in HexTags :
         nOut' = Some(normalize_file_id(nIn, settings.RAG_DEFAULT_FILE_IDS, hex))
    /\ nPc' = "once"
    /\ UNCHANGED <<settings, nIn, nAgain, fmtVars, callVars>>

\* _normalize_file_id applied to the identifier the first call returned
NormalizeTwice ==
    /\ nPc = "once"
    /\ \E hex \in HexTags :
         nAgain' = Some(normalize_file_id(nOut, settings.RAG_DEFAULT_FILE_IDS, hex))
    /\ nPc' = "twice"
    /\ UNCHANGED <<settings, nIn, nOut, fmtVars, callVars>>

NextNormalize == NormalizeOnce \/ NormalizeTwice

SpecNormalize == InitNormalize /\ [][NextNormalize]_vars

\* the pattern ^[a-z0-9_-]+$
MatchesIdPattern(s) == s # <<>> /\ \A i \in 1..Len(s) : s[i] \in IdChars

Separators == {"_", "-"}

\* no adjacent pair of characters of set, none at either end
NoRepeatNoEdge(s, set) ==
    /\ \A i \in 1..(Len(s) - 1) : ~(s[i] \in set /\ s[i+1] \in set)
    /\ s # <<>> => (s[1] \notin set /\ s[Len(s)] \notin set)

IsLowercase(s) == Lower(s) = s

\* the input holds a character that survives cleaning: a letter, a digit or "-"
HasIdChar(o) ==
    /\ ~IsNone(o)
    /\ \E i \in 1..Len(The(o)) : LowerChar(The(o)[i]) \in (IdChars \ {"_"})

\* C5: for every input and every configured list of defaults the normalizer
\* returns a non-empty identifier matching ^[a-z0-9_-]+$, and normalizing its
\* result again changes nothing.
C5_NormalizeTotalIdempotent ==
    /\ nPc \in {"once", "twice"} => MatchesIdPattern(The(nOut))
    /\ nPc = "twice" => nAgain = nOut

Txt(str) == JStr(str)

DocPlain   == JObj([page_content |-> Txt(<<"a"," "," ","b">>)])
DocSourced == JObj([content |-> Txt(<<"c">>),
                    metadata |-> JObj([source |-> Txt(<<"s">>)])])
DocBadText == JObj([page_content |-> JNum(5)])
DocBadMeta == JObj([metadata |-> Txt(<<"m">>)])

\* what an entry may hold as its document
DocValues == { DocPlain, DocSourced, EmptyObj, DocBadText, DocBadMeta,
               JNum(0), JNum(5), JNull }

Entries ==
    { JList(<<d, JNum(1)>>) : d \in DocValues }
  \cup { JObj([document |-> d, score |-> JNum(1)]) : d \in DocValues }
  \cup { JList(<<DocPlain>>), JList(<<DocPlain, Txt(<<"h","i">>)>>), JList(<<>>),
         JObj([document |-> DocPlain]), DocPlain, DocSourced, JNum(5) }

SeqsUpTo(S, n) == UNION { [1..k -> S] : k \in 0..n }

\* the bodies a 2xx response may parse to
Bodies ==
    { JList(es) : es \in SeqsUpTo(Entries, MaxEntries) }
  \cup { JNull, DocPlain, EmptyObj, JNum(0), JNum(5), Txt(<<"x">>), JBool(TRUE) }

InitFormat ==
    /\ settings \in NormalizerSettings
    /\ fIn \in Bodies
    /\ fOut = None /\ fPc = "input"
    /\ NormIdle /\ CallIdle

\* one call of _format_results(fIn)
FormatResults ==
    /\ fPc = "input"
    /\ fOut' = Some(format_results(fIn))
    /\ fPc' = "done"
    /\ UNCHANGED <<settings, fIn, normVars, callVars>>

NextFormat == FormatResults

SpecFormat == InitFormat /\ [][NextFormat]_vars

\* the document of an entry as the claim reads it: the first element of a
\* list-pair, the "document" field of an object when present, else the object
ClaimedDocument(item) ==
    IF IsList(item) /\ Len(item.v) >= 1 THEN item.v[1]
    ELSE IF IsDict(item)
    THEN (IF "document" \in DOMAIN item.v THEN item.v["document"] ELSE item)
    ELSE JNull

\* the indices of the entries whose claimed document is an object, ascending
RECURSIVE ClaimedKept(_, _)
ClaimedKept(items, i) ==
    IF i > Len(items) THEN <<>>
    ELSE (IF IsDict(ClaimedDocument(items[i])) THEN <<i>> ELSE <<>>)
         \o ClaimedKept(items, i + 1)

\* C9: whenever the formatter returns for a list (or absent) body, it emits
\* one line for exactly the entries whose document is an object, in input
\* order, and returns the fixed "no relevant context" message exactly when the
\* body is empty or absent or every entry was dropped.
C9_EmitsIffDocumentIsObject ==
    (fPc = "done" /\ fIn.t \in {"list", "null"} /\ The(fOut).kind = "return") =>
        LET kept == IF fIn.t = "list" THEN ClaimedKept(fIn.v, 1) ELSE <<>>
            text == The(fOut).text
        IN IF kept = <<>>
           THEN text = Message(NoContextMessage)
           ELSE /\ text.form = "lines"
                /\ [i \in 1..Len(text.lines) |-> text.lines[i].idx] = kept

(***************************************************************************)
(* Properties of the inbound calls (Spec)                                  *)
(***************************************************************************)
ProxyOps == {"upload", "list", "preview"}

\* a string with no character other than whitespace (the empty one included)
IsBlank(str) == \A i \in 1..Len(str) : str[i] \in Whitespace

\* the list holds an identifier: a non-empty entry
SuppliesId(ids) == \E i \in 1..Len(ids) : ids[i] # <<>>

\* the entries of the list that are not blank
NonBlankIds(ids) == SelectSeq(ids, LAMBDA x : ~IsBlank(x))

ExplicitIds == IF IsNone(The(args).file_ids) THEN <<>> ELSE The(The(args).file_ids)

\* the identifiers the outbound query payload carries
PayloadIds ==
    LET p == The(request).payload
    IN IF ~IsNone(p.file_ids) THEN The(p.file_ids) ELSE <<The(p.file_id)>>

\* the outbound call failed: error status, timeout, network error, or a body
\* declared as JSON that does not parse
IsFailure(o) ==
    \/ o.kind \in {"timeout", "network"}
    \/ o.kind = "response" /\ o.status >= 400
    \/ o.kind = "response" /\ o.json_ct /\ ~o.parses

\* C1: every invocation of _arun returns a string and never raises, whatever
\* the outbound call gives back (error status, timeout, network error,
\* malformed JSON, or a parsed body of any shape).
C1_ToolNeverRaises ==
    (op = "tool" /\ pc = "done") => The(result).kind = "return"

\* C2: on upload, list and preview every failure of the outbound call ends in
\* an HTTP error: the upstream status when it is >= 400, a generic failure
\* status for a network error, a timeout or a malformed JSON body; nothing
\* else leaves _rag_request and no failure is returned as a success body.
C2_ProxyFailureIsHttpError ==
    (op \in ProxyOps /\ pc = "done" /\ IsFailure(The(outcome))) =>
        /\ The(result).kind = "raise"
        /\ The(result).exc = "HTTPException"
        /\ The(result).status >= 400
        /\ The(outcome).kind = "response" /\ The(outcome).status >= 400
             => The(result).status = The(outcome).status

\* C3: the k of the outbound query payload is the explicit top_k when it is
\* >= 1, exactly 1 when the explicit top_k is 0 or negative, and the
\* configured default floored to 1 when top_k is absent.
C3_TopKSent ==
    (op = "tool" /\ ~IsNone(request)) =>
        LET top_k == The(args).top_k
            k == The(request).payload.k
        IN /\ k >= 1
           /\ IsNone(top_k) => k = Max(1, settings.RAG_TOP_K)
           /\ (~IsNone(top_k) /\ The(top_k) >= 1) => k = The(top_k)
           /\ (~IsNone(top_k) /\ The(top_k) <= 0) => k = 1

\* C4: a tool invocation whose query is empty or whitespace-only makes no
\* outbound call and returns the "query is required" message; one whose
\* explicit file_ids and configured defaults both supply no identifier makes
\* no outbound call and returns the "no file identifiers" message; an outbound
\* call is made only for a non-blank query with at least one identifier.
C4_InvalidInputMakesNoCall ==
    (op = "tool" /\ pc \in {"awaiting", "done"}) =>
        LET q == The(args).query
        IN /\ IsBlank(q) =>
                /\ sent = 0 /\ IsNone(request) /\ pc = "done"
                /\ The(result) = Returned(Message(QueryRequiredMessage))
           /\ (~IsBlank(q) /\ ~SuppliesId(ExplicitIds)
                 /\ ~SuppliesId(settings.RAG_DEFAULT_FILE_IDS)) =>
                /\ sent = 0 /\ IsNone(request) /\ pc = "done"
                /\ The(result) = Returned(Message(NoFileIdsMessage))
           /\ sent > 0 =>
                /\ ~IsBlank(q)
                /\ ~IsNone(request) /\ Len(PayloadIds) >= 1
                /\ \A i \in 1..Len(PayloadIds) : PayloadIds[i] # <<>>

\* C4 witness: a whitespace-only query was answered without a request
C4_Witness ==
    /\ op = "tool" /\ pc = "done" /\ sent = 0
    /\ The(args).query = <<" ">>
    /\ ~IsNone(The(args).file_ids) /\ SuppliesId(ExplicitIds)
    /\ The(result) = Returned(Message(QueryRequiredMessage))

\* C7: every identifier of the outbound query payload is a non-empty,
\* non-blank string and there is at least one; blank entries of the explicit
\* file_ids are filtered out, and the configured defaults are used when the
\* explicit list supplies none.
C7_PayloadIdsNonBlank ==
    /\ (op = "tool" /\ ~IsNone(request)) =>
          /\ Len(PayloadIds) >= 1
          /\ \A i \in 1..Len(PayloadIds) : ~IsBlank(PayloadIds[i])
    /\ (op = "tool" /\ pc \in {"awaiting", "done"} /\ ~IsBlank(The(args).query)
          /\ NonBlankIds(ExplicitIds) = <<>>
          /\ NonBlankIds(settings.RAG_DEFAULT_FILE_IDS) # <<>>) =>
          /\ ~IsNone(request)
          /\ PayloadIds = NonBlankIds(settings.RAG_DEFAULT_FILE_IDS)

\* C8: on both paths the outbound request carries Authorization: Bearer
\* exactly when the issuer returned a token for it, and then that token; with
\* no secret the issuer returns nothing; the request is sent all the same; a
\* token is minted for the request that carries it and was carried by no
\* earlier request.
C8_BearerIffTokenIssued ==
    /\ ~IsNone(request) =>
          /\ IsNone(The(request).headers.Authorization) <=> IsNone(minted)
          /\ ~IsNone(minted) => The(request).headers.Authorization = minted
    /\ ~settings.RAG_JWT_SECRET => IsNone(minted)
    /\ ~IsNone(minted) =>
          /\ The(minted).serial = issued
          /\ The(minted).serial \notin attached
    /\ pc = "awaiting" => (~IsNone(request) /\ sent = 1)
    /\ (op \in ProxyOps /\ pc = "done") => (~IsNone(request) /\ sent = 1)

\* C8 witness: after a request that carried a token, a later request was sent
\* with a token of its own
C8_Witness ==
    /\ served >= 1 /\ attached # {}
    /\ pc = "awaiting" /\ ~IsNone(minted)
    /\ The(request).headers.Authorization = minted

\* C10: an inbound call makes at most one outbound request, a failed or
\* timed-out request is not followed by another, and no client is open once
\* the call has returned or raised.
C10_OneRequestClientClosed ==
    /\ sent <= 1
    /\ pc = "idle" => sent = 0
    /\ clientOpen => (pc = "awaiting" /\ sent = 1)
    /\ pc = "done" => ~clientOpen
    /\ (pc = "done" /\ ~IsNone(outcome)) => sent = 1

\* C10 witness: a request timed out, the call is over, one request was sent
\* and the client is closed
C10_Witness ==
    /\ pc = "done" /\ ~IsNone(outcome) /\ The(outcome).kind = "timeout"
    /\ sent = 1 /\ ~clientOpen

====
